---- MODULE Spec2Model ----
(***************************************************************************)
(* Model of src/validar_documento.py: DocumentoIdentidadValidator, the     *)
(* validator of Spanish identity documents (NIF and NIE).                  *)
(*                                                                         *)
(* A document is a sequence of characters; a character is a one-character  *)
(* string, except "U+0668" which stands for the single character           *)
(* ARABIC-INDIC DIGIT EIGHT (a Unicode decimal digit that is not ASCII).   *)
(* A call either returns a value or raises: Ret(v) and Raise(e).           *)
(***************************************************************************)
EXTENDS Integers, Sequences, FiniteSets, TLC

VARIABLES
    LETRAS_NIF,   \* class attribute: the control-letter table
    pattern_nif,  \* instance attribute: compiled pattern for NIF
    pattern_nie,  \* instance attribute: compiled pattern for NIE
    llamada,      \* the last completed call: [op, arg]
    resultado,    \* what that call returned or raised
    anotado,      \* at most one remembered earlier validar_documento call
    pc,           \* per caller: the line the caller is at ("idle" outside a call)
    marco         \* per caller: the arguments and locals of its call

vars == <<LETRAS_NIF, pattern_nif, pattern_nie, llamada, resultado, anotado, pc, marco>>

validador == <<LETRAS_NIF, pattern_nif, pattern_nie>>
observado == <<llamada, resultado, anotado>>
llamadores == <<pc, marco>>

-----------------------------------------------------------------------------
(* Bounds of the model *)

\* documents are tried with 0..MaxSufijo line feeds appended
MaxSufijo == 1
\* calcular_letra_nif is tried on 0..MaxNumero (and on the documents' numbers)
MaxNumero == 25
\* calls counted after the remembered one (the count stops there)
MaxLlamadas == 2
\* number of concurrent callers of the shared validator
NumLlamadores == 2
\* periodicity is tried for shifts of -MaxPeriodos..MaxPeriodos periods
MaxPeriodos == 2

(* Program constants *)

\* numero % 23
Modulo == 23
\* int(x) parses in base 10
Base == 10

-----------------------------------------------------------------------------
(* Values and exceptions *)

Ret(v) == [exc |-> "", val |-> v]
Raise(e) == [exc |-> e, val |-> <<>>]

-----------------------------------------------------------------------------
(* Characters *)

LF == "\n"
DigitosASCII == {"0", "1", "2", "3", "4", "5", "6", "7", "8", "9"}
\* str patterns are Unicode-aware: \d matches every decimal digit (category Nd)
DigitosUnicode == DigitosASCII \cup {"U+0668"}
Mayusculas == {"A", "B", "C", "D", "E", "F", "G", "H", "I", "J", "K", "L", "M",
               "N", "O", "P", "Q", "R", "S", "T", "U", "V", "W", "X", "Y", "Z"}
Espacios == {LF, " "}

ValorDigito(c) ==
    CASE c = "0" -> 0 [] c = "1" -> 1 [] c = "2" -> 2 [] c = "3" -> 3
      [] c = "4" -> 4 [] c = "5" -> 5 [] c = "6" -> 6 [] c = "7" -> 7
      [] c = "8" -> 8 [] c = "9" -> 9 [] c = "U+0668" -> 8

Rep(x, n) == [i \in 1..n |-> x]

-----------------------------------------------------------------------------
(* re: compiled patterns and re.Pattern.match *)

\* A compiled pattern ^c1...cn$ is the sequence of its character classes.
\* re.compile(r'^\d{8}[A-Z]$')
compile_nif == Rep("\\d", 8) \o <<"[A-Z]">>
\* pattern_nie with a bug: the NIF pattern copied, its first class not changed
compile_nie_copia_de_nif == Rep("\\d", 8) \o <<"[A-Z]">>
\* re.compile(r'^[XYZ]\d{7}[A-Z]$')
compile_nie == <<"[XYZ]">> \o Rep("\\d", 7) \o <<"[A-Z]">>

Coincide(clase, c) ==
    CASE clase = "\\d" -> c \in DigitosUnicode
      [] clase = "[A-Z]" -> c \in Mayusculas
      [] clase = "[XYZ]" -> c \in {"X", "Y", "Z"}

\* pattern.match(doc) is not None. ^ matches at the start of the string; without
\* re.MULTILINE, $ matches at the end of the string and also just before a
\* line feed that is the last character of the string.
match(pattern, doc) ==
    LET n == Len(pattern) IN
    /\ \/ Len(doc) = n
       \/ Len(doc) = n + 1 /\ doc[n + 1] = LF
    /\ \A i \in 1..n : Coincide(pattern[i], doc[i])

-----------------------------------------------------------------------------
(* str slicing and int() *)

\* doc[:-1]
SinUltimo(doc) == SubSeq(doc, 1, Len(doc) - 1)
\* doc[1:-1]
Interior(doc) == SubSeq(doc, 2, Len(doc) - 1)
\* doc[-1] (the callers index only non-empty documents)
Ultimo(doc) == doc[Len(doc)]

RECURSIVE strip(_)
strip(s) ==
    IF s = <<>> THEN s
    ELSE IF Head(s) \in Espacios THEN strip(Tail(s))
    ELSE IF s[Len(s)] \in Espacios THEN strip(SinUltimo(s))
    ELSE s

RECURSIVE ValorDecimal(_)
ValorDecimal(s) ==
    IF s = <<>> THEN 0
    ELSE ValorDecimal(SinUltimo(s)) * Base + ValorDigito(s[Len(s)])

\* int(s): surrounding whitespace is dropped, then every character must be a
\* decimal digit (Unicode digits included); otherwise ValueError.
int(s) ==
    LET t == strip(s) IN
    IF t # <<>> /\ \A i \in 1..Len(t) : t[i] \in DigitosUnicode
    THEN Ret(ValorDecimal(t))
    ELSE Raise("ValueError")

-----------------------------------------------------------------------------
(* DocumentoIdentidadValidator *)

\* LETRAS_NIF = "TRWAGMYFPDXBNJZSQVHLCKE"
TablaLetras == <<"T", "R", "W", "A", "G", "M", "Y", "F", "P", "D", "X", "B",
                 "N", "J", "Z", "S", "Q", "V", "H", "L", "C", "K", "E">>

identificar_documento(doc) ==
    IF match(pattern_nif, doc) THEN "NIF"
    ELSE IF match(pattern_nie, doc) THEN "NIE"
    ELSE "Desconocido"

validar_formato_solo_nif(doc) == match(pattern_nif, doc)

\* bool(m1 or m2)
validar_formato(doc) == match(pattern_nif, doc) \/ match(pattern_nie, doc)

calcular_letra_nif_desplazada(numero) ==
    LET i == (numero + 1) % Modulo IN
    IF i < Len(LETRAS_NIF) THEN Ret(LETRAS_NIF[i + 1]) ELSE Raise("IndexError")

\* calcular_letra_nif with a bug: the table is indexed from 1, so remainder 0
\* reads index -1, the last letter
calcular_letra_nif_indice_desde_uno(numero) ==
    LET i == numero % Modulo IN
    IF i = 0 THEN Ret(LETRAS_NIF[Len(LETRAS_NIF)]) ELSE Ret(LETRAS_NIF[i])

\* calcular_letra_nif with a bug: the remainder is taken modulo 24
calcular_letra_nif_modulo_24(numero) ==
    LET i == numero % (Modulo + 1) IN
    IF i < Len(LETRAS_NIF) THEN Ret(LETRAS_NIF[i + 1]) ELSE Raise("IndexError")

\* self.LETRAS_NIF[numero % 23]; indexing past the end raises IndexError
calcular_letra_nif(numero) ==
    LET i == numero % Modulo IN
    IF i < Len(LETRAS_NIF) THEN Ret(LETRAS_NIF[i + 1]) ELSE Raise("IndexError")

\* conversion = {'X': '0', 'Y': '1', 'Z': '2'}
conversion(c) == CASE c = "X" -> "0" [] c = "Y" -> "1" [] c = "Z" -> "2"

\* the strings validar_letra hands to int(), tipo being the local set at line 67:
\* one in the NIF branch, one in the NIE branch, none in the else branch
cadenas_para_int(tipo, doc) ==
    IF tipo = "NIF" THEN {SinUltimo(doc)}
    ELSE IF tipo = "NIE" THEN {<<conversion(doc[1])>> \o Interior(doc)}
    ELSE {}

\* validar_letra with a bug: the number is parsed before the type is looked at
letra_segun_analiza_primero(tipo, doc) ==
    LET numero == int(SinUltimo(doc)) IN
    IF numero.exc # "" THEN numero
    ELSE IF tipo \in {"NIF", "NIE"} THEN
        LET letra_correcta == calcular_letra_nif(numero.val) IN
        IF letra_correcta.exc # "" THEN letra_correcta
        ELSE Ret(Ultimo(doc) = letra_correcta.val)
    ELSE Ret(FALSE)

\* validar_letra from line 68 on, tipo being the local set at line 67
letra_segun(tipo, doc) ==
    IF tipo = "NIF" THEN
        LET numero == int(SinUltimo(doc)) IN
        IF numero.exc # "" THEN numero
        ELSE LET letra_correcta == calcular_letra_nif(numero.val) IN
             IF letra_correcta.exc # "" THEN letra_correcta
             ELSE Ret(Ultimo(doc) = letra_correcta.val)
    ELSE IF tipo = "NIE" THEN
        LET numero == int(<<conversion(doc[1])>> \o Interior(doc)) IN
        IF numero.exc # "" THEN numero
        ELSE LET letra_correcta == calcular_letra_nif(numero.val) IN
             IF letra_correcta.exc # "" THEN letra_correcta
             ELSE Ret(Ultimo(doc) = letra_correcta.val)
    ELSE Ret(FALSE)

validar_letra(doc) == letra_segun(identificar_documento(doc), doc)

\* the three messages of validar_documento
MensajeFormatoInvalido(doc) == <<"El documento '", doc, "' tiene un formato invalido.">>
MensajeValido(doc, tipo) == <<"El documento '", doc, "' es un ", tipo, " valido.">>
MensajeInvalido(doc, tipo) == <<"El documento '", doc, "' es un ", tipo, " invalido.">>

\* validar_documento at line 95, tipo being the local set at line 91
formato_y_letra(tipo, doc) ==
    IF ~validar_formato(doc) THEN Ret(MensajeInvalido(doc, tipo))
    ELSE LET letra == validar_letra(doc) IN
         IF letra.exc # "" THEN letra
         ELSE IF letra.val THEN Ret(MensajeValido(doc, tipo))
         ELSE Ret(MensajeInvalido(doc, tipo))

validar_documento(doc) ==
    LET tipo == identificar_documento(doc) IN
    IF tipo = "Desconocido" THEN Ret(MensajeFormatoInvalido(doc))
    ELSE formato_y_letra(tipo, doc)

-----------------------------------------------------------------------------
(* Inputs *)

D1234567 == <<"1", "2", "3", "4", "5", "6", "7">>
D7654321 == <<"7", "6", "5", "4", "3", "2", "1">>
Doc12345678Z == D1234567 \o <<"8", "Z">>
Doc12345678A == D1234567 \o <<"8", "A">>
DocX1234567L == <<"X">> \o D1234567 \o <<"L">>
DocZ7654321H == <<"Z">> \o D7654321 \o <<"H">>
DocABCDEFGHI == <<"A", "B", "C", "D", "E", "F", "G", "H", "I">>

\* documentos of the example run
documentos == {
    Doc12345678Z,
    DocX1234567L,
    <<"Y">> \o D1234567 \o <<"X">>,
    <<"Z">> \o D7654321 \o <<"M">>,
    Doc12345678A,
    <<"X">> \o D1234567 \o <<"A">> }

\* further inputs: leading zeros, lowercase, wrong lengths, wrong leading
\* letter, a non-ASCII digit, no digits at all
otros == {
    <<"0", "0", "0", "0", "0", "0", "0", "1", "R">>,
    <<"0", "0", "0", "0", "0", "0", "0", "1", "T">>,
    D1234567 \o <<"8", "z">>,
    D1234567 \o <<"U+0668", "Z">>,
    <<"X", "1", "2", "3", "4", "5", "6", "U+0668", "C">>,
    <<"Y">> \o D1234567 \o <<"L">>,
    DocZ7654321H,
    <<"A">> \o D1234567 \o <<"L">>,
    D1234567 \o <<"Z">>,
    D1234567 \o <<"8", "9">>,
    D1234567 \o <<"8", "9", "Z">>,
    DocABCDEFGHI }

\* inputs also tried with line feeds appended
conSufijo == {Doc12345678Z, Doc12345678A, DocX1234567L, DocZ7654321H, DocABCDEFGHI}

Docs ==
    {<<>>, <<LF>> \o Doc12345678Z}
    \cup documentos \cup otros
    \cup { d \o Rep(LF, k) : d \in conSufijo, k \in 1..MaxSufijo }

Numeros == 0..MaxNumero \cup {1234567, 11234567, 12345678, 27654321, 99999999}

-----------------------------------------------------------------------------
(* Sequential use: one caller, one whole call per step *)

\* the remembered call, one more call having completed after it
Despues(S) ==
    {[a EXCEPT !.llamadas = IF @ < MaxLlamadas THEN @ + 1 ELSE @] : a \in S}

Identificar(doc) ==
    /\ llamada' = [op |-> "identificar_documento", arg |-> doc]
    /\ resultado' = Ret(identificar_documento(doc))
    /\ anotado' = Despues(anotado)
    /\ UNCHANGED <<validador, llamadores>>

ValidarFormato(doc) ==
    /\ llamada' = [op |-> "validar_formato", arg |-> doc]
    /\ resultado' = Ret(validar_formato(doc))
    /\ anotado' = Despues(anotado)
    /\ UNCHANGED <<validador, llamadores>>

CalcularLetra(numero) ==
    /\ llamada' = [op |-> "calcular_letra_nif", arg |-> <<numero>>]
    /\ resultado' = calcular_letra_nif(numero)
    /\ anotado' = Despues(anotado)
    /\ UNCHANGED <<validador, llamadores>>

\* validar_letra with a bug: the pattern that matched last is kept as pattern_nif
ValidarLetraGuardaPatron(doc) ==
    /\ llamada' = [op |-> "validar_letra", arg |-> doc]
    /\ resultado' = validar_letra(doc)
    /\ anotado' = Despues(anotado)
    /\ pattern_nif' = IF match(pattern_nie, doc) THEN pattern_nie ELSE pattern_nif
    /\ UNCHANGED <<LETRAS_NIF, pattern_nie, llamadores>>

ValidarLetra(doc) ==
    /\ llamada' = [op |-> "validar_letra", arg |-> doc]
    /\ resultado' = validar_letra(doc)
    /\ anotado' = Despues(anotado)
    /\ UNCHANGED <<validador, llamadores>>

\* anotado remembers one validar_documento call, any of them, and its result
ValidarDocumento(doc) ==
    /\ llamada' = [op |-> "validar_documento", arg |-> doc]
    /\ resultado' = validar_documento(doc)
    /\ \/ anotado' = Despues(anotado)
       \/ /\ anotado = {}
          /\ anotado' = {[doc |-> doc, res |-> validar_documento(doc), llamadas |-> 0]}
    /\ UNCHANGED <<validador, llamadores>>

Init ==
    /\ LETRAS_NIF = TablaLetras
    /\ pattern_nif = compile_nif
    /\ pattern_nie = compile_nie
    /\ llamada = [op |-> "__init__", arg |-> <<>>]
    /\ resultado = Ret(<<>>)
    /\ anotado = {}
    /\ pc = [c \in 1..NumLlamadores |-> "idle"]
    /\ marco = [c \in 1..NumLlamadores |-> <<>>]

Next ==
    \/ \E doc \in Docs : Identificar(doc)
    \/ \E doc \in Docs : ValidarFormato(doc)
    \/ \E numero \in Numeros : CalcularLetra(numero)
    \/ \E doc \in Docs : ValidarLetra(doc)
    \/ \E doc \in Docs : ValidarDocumento(doc)

Spec == Init /\ [][Next]_vars

-----------------------------------------------------------------------------
(* Concurrent use: several callers share one validator; a step is one line  *)
(* of the caller's method, so calls interleave between the lines.           *)

Llamadores == 1..NumLlamadores
DocsConcurrentes == {Doc12345678Z, DocX1234567L \o <<LF>>, DocABCDEFGHI}
NumerosConcurrentes == {0, 12345678}

\* the first line of each method's body
Entrada(op) ==
    CASE op = "identificar_documento" -> "L27"
      [] op = "validar_formato" -> "L43"
      [] op = "calcular_letra_nif" -> "L55"
      [] op = "validar_letra" -> "L67"
      [] op = "validar_documento" -> "L91"

Entra(c, op, arg) ==
    /\ pc[c] = "idle"
    /\ pc' = [pc EXCEPT ![c] = Entrada(op)]
    /\ marco' = [marco EXCEPT ![c] = [op |-> op, arg |-> arg, tipo |-> ""]]
    /\ UNCHANGED <<validador, observado>>

LlamaConDocumento(c) ==
    \E doc \in DocsConcurrentes :
        \E op \in {"identificar_documento", "validar_formato", "validar_letra",
                   "validar_documento"} : Entra(c, op, doc)

LlamaConNumero(c) ==
    \E numero \in NumerosConcurrentes : Entra(c, "calcular_letra_nif", <<numero>>)

\* the call of caller c returns (or raises) r
Vuelve(c, r) ==
    /\ pc' = [pc EXCEPT ![c] = "idle"]
    /\ marco' = [marco EXCEPT ![c] = <<>>]
    /\ llamada' = [op |-> marco[c].op, arg |-> marco[c].arg]
    /\ resultado' = r
    /\ UNCHANGED anotado

L27(c) ==
    /\ pc[c] = "L27"
    /\ Vuelve(c, Ret(identificar_documento(marco[c].arg)))
    /\ UNCHANGED validador

L43(c) ==
    /\ pc[c] = "L43"
    /\ Vuelve(c, Ret(validar_formato(marco[c].arg)))
    /\ UNCHANGED validador

\* calcular_letra_nif with a bug: the letter is taken off the front of the table
L55ConsumeTabla(c) ==
    /\ pc[c] = "L55"
    /\ Vuelve(c, calcular_letra_nif(marco[c].arg[1]))
    /\ LETRAS_NIF' = Tail(LETRAS_NIF) \o <<Head(LETRAS_NIF)>>
    /\ UNCHANGED <<pattern_nif, pattern_nie>>

L55(c) ==
    /\ pc[c] = "L55"
    /\ Vuelve(c, calcular_letra_nif(marco[c].arg[1]))
    /\ UNCHANGED validador

L67(c) ==
    /\ pc[c] = "L67"
    /\ marco' = [marco EXCEPT ![c].tipo = identificar_documento(marco[c].arg)]
    /\ pc' = [pc EXCEPT ![c] = "L68"]
    /\ UNCHANGED <<validador, observado>>

L68(c) ==
    /\ pc[c] = "L68"
    /\ Vuelve(c, letra_segun(marco[c].tipo, marco[c].arg))
    /\ UNCHANGED validador

L91(c) ==
    /\ pc[c] = "L91"
    /\ marco' = [marco EXCEPT ![c].tipo = identificar_documento(marco[c].arg)]
    /\ pc' = [pc EXCEPT ![c] = "L92"]
    /\ UNCHANGED <<validador, observado>>

L92(c) ==
    /\ pc[c] = "L92"
    /\ IF marco[c].tipo = "Desconocido"
       THEN Vuelve(c, Ret(MensajeFormatoInvalido(marco[c].arg)))
       ELSE /\ pc' = [pc EXCEPT ![c] = "L95"]
            /\ UNCHANGED <<marco, observado>>
    /\ UNCHANGED validador

L95(c) ==
    /\ pc[c] = "L95"
    /\ Vuelve(c, formato_y_letra(marco[c].tipo, marco[c].arg))
    /\ UNCHANGED validador

NextConcurrente ==
    \/ \E c \in Llamadores : LlamaConDocumento(c)
    \/ \E c \in Llamadores : LlamaConNumero(c)
    \/ \E c \in Llamadores : L27(c)
    \/ \E c \in Llamadores : L43(c)
    \/ \E c \in Llamadores : L55(c)
    \/ \E c \in Llamadores : L67(c)
    \/ \E c \in Llamadores : L68(c)
    \/ \E c \in Llamadores : L91(c)
    \/ \E c \in Llamadores : L92(c)
    \/ \E c \in Llamadores : L95(c)

SpecConcurrente == Init /\ [][NextConcurrente]_vars

-----------------------------------------------------------------------------
(* The formats and the checksum as the specification words them *)

\* exactly 8 ASCII digits followed by exactly 1 uppercase ASCII letter
FormatoNIF(doc) ==
    /\ Len(doc) = 9
    /\ \A i \in 1..8 : doc[i] \in DigitosASCII
    /\ doc[9] \in Mayusculas

\* one of X, Y, Z, then exactly 7 ASCII digits, then 1 uppercase ASCII letter
FormatoNIE(doc) ==
    /\ Len(doc) = 9
    /\ doc[1] \in {"X", "Y", "Z"}
    /\ \A i \in 2..8 : doc[i] \in DigitosASCII
    /\ doc[9] \in Mayusculas

\* the character at index n mod 23 of "TRWAGMYFPDXBNJZSQVHLCKE"
LetraDeTabla(n) ==
    <<"T", "R", "W", "A", "G", "M", "Y", "F", "P", "D", "X", "B",
      "N", "J", "Z", "S", "Q", "V", "H", "L", "C", "K", "E">>[(n % 23) + 1]

\* d = 0, 1, 2 for the leading letter X, Y, Z
DigitoNIE(c) == CASE c = "X" -> 0 [] c = "Y" -> 1 [] c = "Z" -> 2

\* the base-10 value of the characters lo..hi of doc
ValorDe(doc, lo, hi) == ValorDecimal(SubSeq(doc, lo, hi))

-----------------------------------------------------------------------------
(* Claims *)

\* C1: validar_documento(doc) gives the 'formato invalido' outcome exactly when
\* identificar_documento(doc) is Desconocido; otherwise it reports the type
\* identificar_documento returns, valid exactly when validar_formato(doc) and
\* validar_letra(doc) are both true.
C1_ValidateFollowsClassify ==
    llamada.op = "validar_documento" =>
        LET doc == llamada.arg
            tipo == identificar_documento(doc)
        IN  IF tipo = "Desconocido"
            THEN resultado.exc = "" /\ resultado.val = MensajeFormatoInvalido(doc)
            ELSE /\ resultado.exc = ""
                 /\ validar_letra(doc).exc = ""
                 /\ resultado.val =
                        IF validar_formato(doc) /\ validar_letra(doc).val
                        THEN MensajeValido(doc, tipo)
                        ELSE MensajeInvalido(doc, tipo)

\* C2: validar_documento never raises, and for every document classified NIF
\* or NIE the parse of the digit portion in validar_letra succeeds.
C2_ValidateNeverRaises ==
    /\ llamada.op = "validar_documento" => resultado.exc = ""
    /\ (llamada.op = "validar_letra"
            /\ identificar_documento(llamada.arg) # "Desconocido")
        => resultado.exc # "ValueError"

\* C3: identificar_documento(doc) returns NIF if and only if doc is exactly
\* 8 ASCII digits followed by one uppercase ASCII letter, nothing before or after.
C3_NifIffNifFormat ==
    llamada.op = "identificar_documento" =>
        (resultado.val = "NIF" <=> FormatoNIF(llamada.arg))

\* C4: for a doc that is not of the NIF format, identificar_documento(doc)
\* returns NIE if and only if doc is exactly X, Y or Z, 7 ASCII digits and one
\* uppercase ASCII letter; a doc of neither format is Desconocido.
C4_NieIffNieFormat ==
    (llamada.op = "identificar_documento" /\ ~FormatoNIF(llamada.arg)) =>
        /\ resultado.val = "NIE" <=> FormatoNIE(llamada.arg)
        /\ ~FormatoNIE(llamada.arg) => resultado.val = "Desconocido"

\* C5: validar_formato(doc) returns a boolean, never raises, and is true if
\* and only if identificar_documento(doc) is NIF or NIE.
C5_WellFormedIffClassified ==
    llamada.op = "validar_formato" =>
        /\ resultado.exc = ""
        /\ resultado.val \in BOOLEAN
        /\ resultado.val <=> identificar_documento(llamada.arg) \in {"NIF", "NIE"}

\* a validar_formato call that returned True on a document classified NIE
C5_Witness ==
    /\ llamada.op = "validar_formato"
    /\ resultado = Ret(TRUE)
    /\ identificar_documento(llamada.arg) = "NIE"

\* C6: whatever calls were made in between, a later validar_documento(doc)
\* gives the result the remembered earlier validar_documento(doc) gave.
C6_ValidateRepeats ==
    llamada.op = "validar_documento" =>
        \A a \in anotado : a.doc = llamada.arg => resultado = a.res

\* validar_documento called again on the remembered document, at least one
\* other call having completed in between, and it reported a valid document
C6_Witness ==
    /\ llamada.op = "validar_documento"
    /\ \E a \in anotado :
        /\ a.doc = llamada.arg
        /\ a.llamadas >= 2
        /\ a.res.exc = ""
        /\ a.res.val = MensajeValido(a.doc, "NIF")

\* C7: in every reachable state, callers interleaved, the control-letter table
\* has exactly 23 entries and is "TRWAGMYFPDXBNJZSQVHLCKE".
C7_TableConstant ==
    /\ Len(LETRAS_NIF) = 23
    /\ LETRAS_NIF = <<"T", "R", "W", "A", "G", "M", "Y", "F", "P", "D", "X", "B",
                      "N", "J", "Z", "S", "Q", "V", "H", "L", "C", "K", "E">>

\* a calcular_letra_nif call has completed while two other calls, which read
\* the table too, are under way
C7_Witness ==
    /\ llamada.op = "calcular_letra_nif"
    /\ \E c1, c2 \in Llamadores : pc[c1] = "L95" /\ pc[c2] = "L68"

\* C8: validar_documento("12345678Z") reports a valid NIF,
\* validar_documento("12345678A") an invalid NIF (no error), and
\* validar_documento("ABCDEFGHI") the 'formato invalido' outcome.
C8_Scenarios ==
    llamada.op = "validar_documento" =>
        /\ llamada.arg = Doc12345678Z =>
               resultado.exc = "" /\ resultado.val = MensajeValido(Doc12345678Z, "NIF")
        /\ llamada.arg = Doc12345678A =>
               resultado.exc = "" /\ resultado.val = MensajeInvalido(Doc12345678A, "NIF")
        /\ llamada.arg = DocABCDEFGHI =>
               resultado.exc = "" /\ resultado.val = MensajeFormatoInvalido(DocABCDEFGHI)

\* validar_documento("12345678A") has returned
C8_Witness ==
    /\ llamada = [op |-> "validar_documento", arg |-> Doc12345678A]
    /\ resultado.exc = ""

\* C9: for every doc classified NIF, validar_letra(doc) is true if and only if
\* the last character of doc is table[n mod 23], n the base-10 value of the
\* 8 leading digits.
C9_NifLetter ==
    (llamada.op = "validar_letra" /\ identificar_documento(llamada.arg) = "NIF") =>
        LET doc == llamada.arg IN
        /\ resultado.exc = ""
        /\ resultado.val <=> (Ultimo(doc) = LetraDeTabla(ValorDe(doc, 1, 8)))

\* C10: for every doc classified NIE, validar_letra(doc) is true if and only if
\* the last character of doc is table[(d * 10^7 + value of the 7 following
\* digits) mod 23], d = 0, 1, 2 for X, Y, Z.
C10_NieLetter ==
    (llamada.op = "validar_letra" /\ identificar_documento(llamada.arg) = "NIE") =>
        LET doc == llamada.arg IN
        /\ resultado.exc = ""
        /\ resultado.val <=>
               (Ultimo(doc) =
                    LetraDeTabla(DigitoNIE(doc[1]) * 10000000 + ValorDe(doc, 2, 8)))

\* C11: for every non-negative n, calcular_letra_nif(n) returns the character
\* at index n mod 23 of "TRWAGMYFPDXBNJZSQVHLCKE" (index 0 is 'T', index 22 is
\* 'E'), so always one of the 23 table characters.
C11_ExpectedLetter ==
    llamada.op = "calcular_letra_nif" =>
        LET n == llamada.arg[1] IN
        /\ resultado.exc = ""
        /\ resultado.val = LetraDeTabla(n)
        /\ n % 23 = 0 => resultado.val = "T"
        /\ n % 23 = 22 => resultado.val = "E"
        /\ resultado.val \in
               {"T", "R", "W", "A", "G", "M", "Y", "F", "P", "D", "X", "B",
                "N", "J", "Z", "S", "Q", "V", "H", "L", "C", "K", "E"}

\* calcular_letra_nif(23) has returned 'T': the index wrapped around
C11_Witness ==
    /\ llamada = [op |-> "calcular_letra_nif", arg |-> <<23>>]
    /\ resultado = Ret("T")

\* C12: for every doc that identificar_documento gives as Desconocido (the
\* empty string and short strings included), validar_letra(doc) returns False,
\* does not raise, and hands nothing to int().
C12_UnknownLetterFalse ==
    (llamada.op = "validar_letra"
        /\ identificar_documento(llamada.arg) = "Desconocido") =>
        /\ resultado.exc = ""
        /\ resultado.val = FALSE
        /\ cadenas_para_int(identificar_documento(llamada.arg), llamada.arg) = {}

\* validar_letra("") has returned False
C12_Witness ==
    /\ llamada = [op |-> "validar_letra", arg |-> <<>>]
    /\ resultado = Ret(FALSE)

\* C13: calcular_letra_nif has period 23: for every n in 0..99999999 and every
\* integer k with n + 23k >= 0, calcular_letra_nif(n + 23k) is what
\* calcular_letra_nif(n) returned.
C13_Periodic ==
    (llamada.op = "calcular_letra_nif" /\ llamada.arg[1] \in 0..99999999) =>
        \A k \in -MaxPeriodos..MaxPeriodos :
            llamada.arg[1] + 23 * k >= 0 =>
                calcular_letra_nif(llamada.arg[1] + 23 * k) = resultado

\* calcular_letra_nif(12345678) has returned 'Z', and so does the number one
\* period below it
C13_Witness ==
    /\ llamada = [op |-> "calcular_letra_nif", arg |-> <<12345678>>]
    /\ resultado = Ret("Z")
    /\ calcular_letra_nif(12345678 - 23) = Ret("Z")

\* doc with the character at position p replaced by c
Sustituye(doc, p, c) == [doc EXCEPT ![p] = c]

\* C14: for every doc that validar_documento reports as a valid NIF or NIE,
\* replacing exactly one of its digit characters by a different ASCII digit
\* gives a document that validar_documento reports as an invalid document of
\* the same type.
C14_SingleDigitDetected ==
    \A tipo \in {"NIF", "NIE"} :
        (/\ llamada.op = "validar_documento"
         /\ resultado.exc = ""
         /\ resultado.val = MensajeValido(llamada.arg, tipo)) =>
            \A p \in 1..Len(llamada.arg) :
                llamada.arg[p] \in DigitosUnicode =>
                    \A c \in DigitosASCII \ {llamada.arg[p]} :
                        LET otro == Sustituye(llamada.arg, p, c) IN
                        validar_documento(otro) = Ret(MensajeInvalido(otro, tipo))

\* identificar_documento with the two patterns tried in the other order
IdentificarNIEPrimero(doc) ==
    IF match(pattern_nie, doc) THEN "NIE"
    ELSE IF match(pattern_nif, doc) THEN "NIF"
    ELSE "Desconocido"

\* C15: no string matches both pattern_nif and pattern_nie, so
\* identificar_documento gives the same answer with the patterns tried in the
\* other order, and for every doc not Desconocido validar_documento reports
\* valid if and only if validar_letra(doc) is true.
C15_FormatsExclusive ==
    /\ \A doc \in Docs : ~(match(pattern_nif, doc) /\ match(pattern_nie, doc))
    /\ llamada.op = "identificar_documento" =>
           resultado.val = IdentificarNIEPrimero(llamada.arg)
    /\ (llamada.op = "validar_documento"
            /\ identificar_documento(llamada.arg) # "Desconocido") =>
           ((/\ resultado.exc = ""
             /\ resultado.val =
                    MensajeValido(llamada.arg, identificar_documento(llamada.arg)))
            <=> (/\ validar_letra(llamada.arg).exc = ""
                 /\ validar_letra(llamada.arg).val))

\* validar_documento has reported a valid NIE: the second pattern decided the
\* type and validar_formato was evaluated before validar_letra
C15_Witness ==
    /\ llamada.op = "validar_documento"
    /\ identificar_documento(llamada.arg) = "NIE"
    /\ resultado.exc = ""
    /\ resultado.val = MensajeValido(llamada.arg, "NIE")

====
